---- MODULE Spec2Model ----
(***************************************************************************)
(* The radix-tree router of zeno: tree.Add / node.add / node.addChild      *)
(* build the tree, tree.Get / node.get match a request path against it.    *)
(* Byte strings are sequences of one-character strings; node pointers are  *)
(* indices into the sequence `nodes` (0 is the nil pointer, 1 the root).   *)
(***************************************************************************)
EXTENDS Integers, Sequences, FiniteSets, TLC

\* ---------------------------------------------------------------- bounds
MaxRoutes == 2          \* Add calls per tree
MaxTail == 4            \* bytes of a request path after the leading "/a"
MaxPairs == 2           \* name/value pairs passed to Route.URL
MaxServeTail == 3       \* bytes of a served path after the leading "/a"
MaxSetup == 2           \* Use, Group and Route calls before the routes
MaxRequests == 2        \* requests served by one pooled context

\* ------------------------------------------------------------ byte strings
Byte ==
  {"/", "a", "b", "-", "{", "}", ":", "?", "*", "[", "]", "+", "|",
   "i", "s", "p", "."}

PathBytes == {"/", "a", "-"}

Nil == 0
MaxInt32 == 2147483647

\* the value a buffer slot holds before Get writes it
Stale == <<"#">>

Drop(s, k) == SubSeq(s, k + 1, Len(s))
Take(s, k) == SubSeq(s, 1, k)

HasPrefix(s, prefix) ==
  /\ Len(prefix) <= Len(s)
  /\ \A i \in 1..Len(prefix) : s[i] = prefix[i]

\* bytes.IndexByte, 1-based; 0 when absent
IndexByte(s, c) ==
  IF \E i \in 1..Len(s) : s[i] = c
  THEN CHOOSE i \in 1..Len(s) : s[i] = c /\ \A j \in 1..(i - 1) : s[j] # c
  ELSE 0

\* ------------------------------------------------------------------ regexp
\* regexp.MustCompile("^" + pattern) and FindIndex for the pattern syntax
\* the routes use: literal bytes, the dot, classes [..], the postfixes + and
\* * and top-level alternation |.  The "^" that addChild prepends binds to the first
\* alternative only; the search is leftmost, then first alternative, then
\* greedy.

\* length of the atom starting at pat[k]
AtomLen(pat, k) ==
  IF pat[k] = "["
  THEN (CHOOSE j \in (k + 1)..Len(pat) :
          pat[j] = "]" /\ \A m \in (k + 1)..(j - 1) : pat[m] # "]") - k + 1
  ELSE 1

\* the bytes the atom pat[k .. k+al-1] accepts
AtomSet(pat, k, al) ==
  IF pat[k] = "[" THEN {pat[m] : m \in (k + 1)..(k + al - 2)}
  ELSE IF pat[k] = "." THEN Byte
  ELSE {pat[k]}

\* number of leading bytes of s, from position pos, that lie in set
RECURSIVE Run(_, _, _)
Run(s, pos, set) ==
  IF pos <= Len(s) /\ s[pos] \in set THEN 1 + Run(s, pos + 1, set) ELSE 0

\* end (count of bytes of s consumed) of the preferred match of pat[k..]
\* against s from offset pos, or -1
RECURSIVE MatchSeq(_, _, _, _)
RECURSIVE MatchAtom(_, _, _, _, _)
RECURSIVE MatchPlus(_, _, _, _, _)
RECURSIVE MatchPlusNext(_, _, _, _, _, _)
RECURSIVE MatchStar(_, _, _, _, _)
RECURSIVE MatchStarNext(_, _, _, _, _, _)
MatchSeq(pat, k, s, pos) ==
  IF k > Len(pat) THEN pos ELSE MatchAtom(pat, k, AtomLen(pat, k), s, pos)

MatchAtom(pat, k, al, s, pos) ==
  IF k + al <= Len(pat) /\ pat[k + al] = "+"
  THEN MatchPlus(pat, k + al + 1, s, pos, Run(s, pos + 1, AtomSet(pat, k, al)))
  ELSE IF k + al <= Len(pat) /\ pat[k + al] = "*"
  THEN MatchStar(pat, k + al + 1, s, pos, Run(s, pos + 1, AtomSet(pat, k, al)))
  ELSE IF pos + 1 <= Len(s) /\ s[pos + 1] \in AtomSet(pat, k, al)
       THEN MatchSeq(pat, k + al, s, pos + 1)
       ELSE -1

\* a+ took j bytes; on failure of the rest it gives one back
MatchPlus(pat, k, s, pos, j) ==
  IF j < 1 THEN -1
  ELSE MatchPlusNext(MatchSeq(pat, k, s, pos + j), pat, k, s, pos, j)

MatchPlusNext(e, pat, k, s, pos, j) ==
  IF e >= 0 THEN e ELSE MatchPlus(pat, k, s, pos, j - 1)

\* a* took j bytes; on failure of the rest it gives one back, down to none
MatchStar(pat, k, s, pos, j) ==
  IF j < 0 THEN -1
  ELSE MatchStarNext(MatchSeq(pat, k, s, pos + j), pat, k, s, pos, j)

MatchStarNext(e, pat, k, s, pos, j) ==
  IF e >= 0 THEN e ELSE MatchStar(pat, k, s, pos, j - 1)

\* the alternatives of a pattern, split at the '|' outside classes
RECURSIVE SplitAlt(_, _, _, _)
SplitAlt(pat, k, cur, inClass) ==
  IF k > Len(pat) THEN <<cur>>
  ELSE IF pat[k] = "|" /\ ~inClass
       THEN <<cur>> \o SplitAlt(pat, k + 1, <<>>, FALSE)
       ELSE SplitAlt(pat, k + 1, Append(cur, pat[k]),
                     IF pat[k] = "[" THEN TRUE
                     ELSE IF pat[k] = "]" THEN FALSE ELSE inClass)

\* first alternative, in order, matching at offset pos: <<pos, end>> or <<>>;
\* the first alternative carries the "^" and matches at offset 0 only
RECURSIVE FirstAlt(_, _, _, _)
RECURSIVE FirstAltNext(_, _, _, _, _)
FirstAlt(alts, a, s, pos) ==
  IF a > Len(alts) THEN <<>>
  ELSE FirstAltNext(IF a = 1 /\ pos > 0 THEN -1
                    ELSE MatchSeq(alts[a], 1, s, pos),
                    alts, a, s, pos)

FirstAltNext(e, alts, a, s, pos) ==
  IF e >= 0 THEN <<pos, e>> ELSE FirstAlt(alts, a + 1, s, pos)

RECURSIVE FindFrom(_, _, _)
RECURSIVE FindFromNext(_, _, _, _)
FindFrom(alts, s, pos) ==
  IF pos > Len(s) THEN <<>>
  ELSE FindFromNext(FirstAlt(alts, 1, s, pos), alts, s, pos)

FindFromNext(m, alts, s, pos) ==
  IF m # <<>> THEN m ELSE FindFrom(alts, s, pos + 1)

\* regex.FindIndex(path) for regexp.MustCompile("^" + pattern):
\* <<m0, m1>> (0-based, m1 exclusive) or <<>> for nil
FindIndex(pattern, path) ==
  FindFrom(SplitAlt(pattern, 1, <<>>, FALSE), path, 0)

\* ------------------------------------------------------------------- nodes
NoChildren == [b \in Byte |-> Nil]

newNode ==
  [static |-> FALSE, optional |-> FALSE, wildcard |-> FALSE, key |-> <<>>,
   regex |-> <<>>, handlers |-> Nil, order |-> 0, minOrder |-> 0,
   children |-> NoChildren, pchildren |-> <<>>, pindex |-> -1, pnames |-> <<>>]

\* newTree: the root node
newTree == <<[newNode EXCEPT !.static = TRUE]>>

\* length of the common prefix of key and nkey (the first loop of node.add)
RECURSIVE matchedLen(_, _, _)
matchedLen(key, nkey, m) ==
  IF m < Len(key) /\ m < Len(nkey) /\ key[m + 1] = nkey[m + 1]
  THEN matchedLen(key, nkey, m + 1)
  ELSE m

\* the token scan at the head of addChild: <<p0, p1>>, 1-based, 0 for "-1"
RECURSIVE scanToken(_, _, _)
scanToken(key, i, p0) ==
  IF i > Len(key) THEN <<p0, 0>>
  ELSE IF key[i] = "{" THEN scanToken(key, i + 1, i)
  ELSE IF key[i] = "}" /\ p0 > 0 THEN <<p0, i>>
  ELSE scanToken(key, i + 1, p0)

AddResult(ns, pn, panic) == [nodes |-> ns, pn |-> pn, panic |-> panic]

\* mutant: the index of the last parameter instead of the count
paramCount_Index(nd) == nd.pindex

\* "return n.pindex + 1": the number of parameters of the route ending at nd
paramCount(nd) == nd.pindex + 1

\* mutant: a later registration replaces the handlers
attach_Overwrite(nd, handlers, order) ==
  [nd EXCEPT !.handlers = handlers, !.order = order]

\* the exact-match branch of node.add: handlers are attached only to a node
\* that has none
attach(nd, handlers, order) ==
  IF nd.handlers = Nil
  THEN [nd EXCEPT !.handlers = handlers, !.order = order]
  ELSE nd

\* the static literal node of addChild
litNode(parent, key, handlers, order) ==
  [newNode EXCEPT !.static = TRUE, !.key = key, !.minOrder = order,
                  !.pindex = parent.pindex, !.pnames = parent.pnames,
                  !.handlers = handlers, !.order = order]

\* mutant: the prefix node takes a minOrder above the order of its route
prefixNode_LateMin(parent, key, order) ==
  [newNode EXCEPT !.static = TRUE, !.key = key, !.minOrder = order + 1,
                  !.pindex = parent.pindex, !.pnames = parent.pnames]

\* the static prefix node of addChild
prefixNode(parent, key, order) ==
  [newNode EXCEPT !.static = TRUE, !.key = key, !.minOrder = order,
                  !.pindex = parent.pindex, !.pnames = parent.pnames]

\* raw := token[1:len-1], with a leading '*' moved to the end
tokenRaw(token) ==
  IF Len(token) > 3 /\ token[2] = "*"
  THEN Append(SubSeq(token, 3, Len(token) - 1), "*")
  ELSE SubSeq(token, 2, Len(token) - 1)

\* child.key: append(raw[1:], '*') writes the '*' over the closing brace of
\* the key array that token aliases
tokenKey(token) ==
  IF Len(token) > 3 /\ token[2] = "*"
  THEN Append(Take(token, Len(token) - 1), "*")
  ELSE token

\* pname before the '?' and '*' suffixes are cut, and the regex pattern
rawName(raw, colon) == IF colon > 0 THEN Take(raw, colon - 1) ELSE raw
rawPattern(raw, colon) == IF colon > 0 THEN Drop(raw, colon) ELSE <<>>

EndsWith(s, c) == Len(s) > 0 /\ s[Len(s)] = c
CutIf(s, c) == IF EndsWith(s, c) THEN Take(s, Len(s) - 1) ELSE s

\* the parameter node of addChild for a token whose name part is pname0
\* (suffixes included) and whose regex is pattern
paramNode(parent, nkey, pname0, pattern, terminal, handlers, order) ==
  [newNode EXCEPT
     !.key = nkey, !.minOrder = order,
     !.optional = EndsWith(pname0, "?"),
     !.wildcard = EndsWith(CutIf(pname0, "?"), "*"),
     !.regex = pattern,
     !.pnames = Append(parent.pnames, CutIf(CutIf(pname0, "?"), "*")),
     !.pindex = Len(parent.pnames),
     !.handlers = IF terminal THEN handlers ELSE Nil,
     !.order = IF terminal THEN order ELSE 0]

RECURSIVE addChild(_, _, _, _, _)
RECURSIVE addChildAt(_, _, _, _, _, _, _)
RECURSIVE addParam(_, _, _, _, _, _, _)
RECURSIVE addParamNode(_, _, _, _, _, _, _)
addChild(ns, n, key, handlers, order) ==
  addChildAt(ns, n, key, handlers, order, scanToken(key, 1, 0)[1],
             scanToken(key, 1, 0)[2])

addChildAt(ns, n, key, handlers, order, p0, p1) ==
  IF p0 = 0 \/ p1 = 0 THEN
    \* static literal
    AddResult(Append([ns EXCEPT ![n].children[key[1]] = Len(ns) + 1],
                     litNode(ns[n], key, handlers, order)),
              paramCount(litNode(ns[n], key, handlers, order)), FALSE)
  ELSE IF p0 > 1 THEN
    \* static prefix before the parameter
    addChild(Append([ns EXCEPT ![n].children[key[1]] = Len(ns) + 1],
                    prefixNode(ns[n], Take(key, p0 - 1), order)),
             Len(ns) + 1, Drop(key, p0 - 1), handlers, order)
  ELSE
    \* parameter token
    addParam(ns, n, key, handlers, order, p1, tokenRaw(Take(key, p1)))

addParam(ns, n, key, handlers, order, p1, raw) ==
  addParamNode(ns, n, key, handlers, order, p1,
               paramNode(ns[n], tokenKey(Take(key, p1)),
                         rawName(raw, IndexByte(raw, ":")),
                         rawPattern(raw, IndexByte(raw, ":")),
                         p1 = Len(key), handlers, order))

addParamNode(ns, n, key, handlers, order, p1, child) ==
  IF child.wildcard /\ p1 # Len(key) THEN AddResult(ns, -1, TRUE)
  ELSE IF p1 = Len(key)
  THEN AddResult(Append([ns EXCEPT ![n].pchildren = Append(@, Len(ns) + 1)],
                        child),
                 paramCount(child), FALSE)
  ELSE addChild(Append([ns EXCEPT ![n].pchildren = Append(@, Len(ns) + 1)],
                       child),
                Len(ns) + 1, Drop(key, p1), handlers, order)

\* the node split of node.add: n keeps the common prefix, the new node n1
\* takes the suffix with the handlers and the children
split(ns, n, key, matched) ==
  Append([ns EXCEPT ![n].key = Take(key, matched),
                    ![n].handlers = Nil,
                    ![n].children =
                       [NoChildren EXCEPT ![ns[n].key[matched + 1]] =
                                             Len(ns) + 1],
                    ![n].pchildren = <<>>],
         [ns[n] EXCEPT !.static = TRUE, !.key = Drop(ns[n].key, matched)])

RECURSIVE add(_, _, _, _, _)
RECURSIVE addAt(_, _, _, _, _, _)
RECURSIVE addLit(_, _, _, _, _, _)
RECURSIVE addPchildren(_, _, _, _, _, _)
RECURSIVE addPchildrenNext(_, _, _, _, _, _, _)
add(ns, n, key, handlers, order) ==
  addAt(ns, n, key, handlers, order, matchedLen(key, ns[n].key, 0))

addAt(ns, n, key, handlers, order, matched) ==
  IF matched = Len(ns[n].key) /\ matched = Len(key) THEN
    AddResult([ns EXCEPT ![n] = attach(ns[n], handlers, order)],
              paramCount(ns[n]), FALSE)
  ELSE IF matched = Len(ns[n].key) THEN
    addLit(ns, n, Drop(key, matched), handlers, order,
           ns[n].children[key[matched + 1]])
  ELSE IF matched = 0 \/ ~ns[n].static THEN AddResult(ns, -1, FALSE)
  ELSE add(split(ns, n, key, matched), n, key, handlers, order)

\* "if lit := n.children[childKey[0]]; lit != nil": a static child never
\* returns -1, its key shares the first byte with childKey
addLit(ns, n, childKey, handlers, order, lit) ==
  IF lit # Nil
  THEN addPchildrenNext(add(ns, lit, childKey, handlers, order),
                        ns, n, 0, childKey, handlers, order)
  ELSE addPchildren(ns, n, 1, childKey, handlers, order)

\* the loop over n.pchildren in node.add, then the final addChild
addPchildren(ns, n, i, childKey, handlers, order) ==
  IF i > Len(ns[n].pchildren) THEN addChild(ns, n, childKey, handlers, order)
  ELSE addPchildrenNext(add(ns, ns[n].pchildren[i], childKey, handlers, order),
                        ns, n, i, childKey, handlers, order)

addPchildrenNext(r, ns, n, i, childKey, handlers, order) ==
  IF r.panic \/ r.pn >= 0 THEN r
  ELSE addPchildren(ns, n, i + 1, childKey, handlers, order)

\* --------------------------------------------------------------------- get
GetResult(d, names, o, pv, fault) ==
  [d |-> d, names |-> names, o |-> o, pv |-> pv, fault |-> fault]

NoMatch(o, pv) == GetResult(Nil, <<>>, o, pv, FALSE)
Fault(pv) == GetResult(Nil, <<>>, MaxInt32, pv, TRUE)

\* mutant: the value lands in the slot before the parameter's own
SetValue_SlotBefore(pv, i, v) == [pv EXCEPT ![i] = v]

\* pvalues[i] = v with Go's 0-based index; the caller has checked the range
SetValue(pv, i, v) == [pv EXCEPT ![i + 1] = v]

InRange(pv, i) == i >= 0 /\ i < Len(pv)

\* mutant: the scan stops at '/' only
RECURSIVE paramEnd_SlashOnly(_, _, _)
paramEnd_SlashOnly(nd, path, idx) ==
  IF idx < Len(path) /\ path[idx + 1] # "/"
  THEN paramEnd_SlashOnly(nd, path, idx + 1)
  ELSE idx

\* the scan of a plain parameter: bytes up to '/' or to a byte that has a
\* static child of the parameter's node
RECURSIVE paramEnd(_, _, _)
paramEnd(nd, path, idx) ==
  IF idx < Len(path) /\ path[idx + 1] # "/" /\ nd.children[path[idx + 1]] = Nil
  THEN paramEnd(nd, path, idx + 1)
  ELSE idx

\* mutant: the wildcard stops at the next '/'
wildcardEnd_Segment(path) ==
  IF IndexByte(path, "/") > 0 THEN IndexByte(path, "/") - 1 ELSE Len(path)

\* "pvalues[n.pindex] = string(path); path = nil": a wildcard takes it all
wildcardEnd(path) == Len(path)

\* what the first part of node.get leaves: ok: the node matched; fault: an
\* index out of range; pv, path: the buffer and the rest of the path
Consumed(ok, fault, pv, path) ==
  [ok |-> ok, fault |-> fault, pv |-> pv, path |-> path]

\* pvalues[n.pindex] = path[:k]; path = path[k:]
Capture(nd, path, pv, k) ==
  IF InRange(pv, nd.pindex)
  THEN Consumed(TRUE, FALSE, SetValue(pv, nd.pindex, Take(path, k)),
                Drop(path, k))
  ELSE Consumed(FALSE, TRUE, pv, path)

\* the regex branch, m the result of FindIndex
ConsumeRegex(nd, path, pv, m) ==
  IF m # <<>> THEN Capture(nd, path, pv, m[2])
  ELSE Consumed(FALSE, FALSE, pv, path)

\* the first part of node.get: the node consumes its share of the path
Consume(nd, path, pv) ==
  IF nd.static THEN
    IF ~HasPrefix(path, nd.key) THEN Consumed(FALSE, FALSE, pv, path)
    ELSE Consumed(TRUE, FALSE, pv, Drop(path, Len(nd.key)))
  ELSE IF nd.regex # <<>> THEN
    IF Len(path) = 0 /\ nd.optional THEN Capture(nd, path, pv, 0)
    ELSE ConsumeRegex(nd, path, pv, FindIndex(nd.regex, path))
  ELSE IF nd.wildcard THEN Capture(nd, path, pv, wildcardEnd(path))
  ELSE IF Len(path) = 0 THEN
    IF nd.optional THEN Capture(nd, path, pv, 0)
    ELSE Consumed(FALSE, FALSE, pv, path)
  ELSE Capture(nd, path, pv, paramEnd(nd, path, 0))

\* mutant: the first match found is kept
better_First(d, o, bestOrder) == d # Nil /\ bestOrder = MaxInt32

\* "d != nil && o < bestOrder": a result replaces the best one found so far
better(d, o, bestOrder) == d # Nil /\ o < bestOrder

\* mutant: no parametric child is tried once something has matched
pruned_AfterMatch(pc, bestOrder) == bestOrder < MaxInt32

\* "pc.minOrder >= bestOrder": the parametric child cannot improve the result
pruned(pc, bestOrder) == pc.minOrder >= bestOrder

\* mutant: the node's handlers count before the path is used up
ownMatch_Early(nd, path) == nd.handlers # Nil

\* "} else if n.handlers != nil {": the node itself matches when the path
\* is used up
ownMatch(nd, path) == Len(path) = 0 /\ nd.handlers # Nil

\* mutant: the values of the scratch buffer are not copied back
CopyFrom_None(pv, tmp, k) == pv

\* copy(pvalues[k:], tmp[k:]) with Go's 0-based k
CopyFrom(pv, tmp, k) ==
  [i \in 1..Len(pv) |-> IF i > k /\ i <= Len(tmp) THEN tmp[i] ELSE pv[i]]

\* make([]string, n)
Zeros(n) == [i \in 1..n |-> <<>>]

RECURSIVE get(_, _, _, _)
RECURSIVE getNode(_, _, _)
RECURSIVE getChildren(_, _, _, _)
RECURSIVE getLit(_, _, _, _, _)
RECURSIVE getPchildren(_, _, _, _, _, _, _, _)
RECURSIVE getPchild(_, _, _, _, _, _, _, _, _)
RECURSIVE getPchildNext(_, _, _, _, _, _, _, _, _, _)
get(ns, n, path, pvalues) == getNode(ns, n, Consume(ns[n], path, pvalues))

\* "lit := n.children[path[0]]" when path is not empty
getNode(ns, n, c) ==
  getChildren(ns, n, c,
              IF Len(c.path) > 0 THEN ns[n].children[c.path[1]] ELSE Nil)

\* the second part of node.get; c is what the node left, lit the static
\* child for the next byte of the path
getChildren(ns, n, c, lit) ==
  IF c.fault THEN Fault(c.pv)
  ELSE IF ~c.ok THEN NoMatch(MaxInt32, c.pv)
  ELSE IF Len(c.path) > 0 /\ lit # Nil
  THEN getLit(ns, n, c.path, lit, get(ns, lit, c.path, c.pv))
  ELSE IF ownMatch(ns[n], c.path) THEN
    getPchildren(ns, n, 1, c.path, c.pv, <<>>, FALSE,
                 GetResult(ns[n].handlers, ns[n].pnames, ns[n].order, c.pv,
                           FALSE))
  ELSE getPchildren(ns, n, 1, c.path, c.pv, <<>>, FALSE,
                    NoMatch(MaxInt32, c.pv))

\* r is what lit.get returned.  "n = lit; goto repeat": nothing has been
\* found yet at that point, so the jump returns what lit.get returns
getLit(ns, n, path, lit, r) ==
  IF Len(ns[n].pchildren) = 0 THEN r
  ELSE IF r.fault THEN r
  ELSE IF better(r.d, r.o, MaxInt32)
  THEN getPchildren(ns, n, 1, path, r.pv, <<>>, FALSE, r)
  ELSE getPchildren(ns, n, 1, path, r.pv, <<>>, FALSE, NoMatch(MaxInt32, r.pv))

\* the loop over n.pchildren in node.get.  pv is the caller's buffer; tmp is
\* the scratch buffer once scratch is TRUE (before that tmp aliases pv);
\* best carries bestData, bestNames, bestOrder
getPchildren(ns, n, i, path, pv, tmp, scratch, best) ==
  IF i > Len(ns[n].pchildren)
  THEN GetResult(best.d, best.names, best.o, pv, FALSE)
  ELSE IF pruned(ns[ns[n].pchildren[i]], best.o)
  THEN getPchildren(ns, n, i + 1, path, pv, tmp, scratch, best)
  ELSE getPchild(ns, n, i, path, pv,
                 IF best.d # Nil /\ ~scratch THEN Zeros(Len(pv)) ELSE tmp,
                 scratch \/ best.d # Nil, best, ns[n].pchildren[i])

\* one unpruned parametric child pc, tmp and scratch already settled
getPchild(ns, n, i, path, pv, tmp, scratch, best, pc) ==
  getPchildNext(ns, n, i, path, pv, scratch, best, pc,
                ns[pc].pindex,
                get(ns, pc, path, IF scratch THEN tmp ELSE pv))

\* r is what pc.get returned; it wrote into tmp, which is pv unless scratch
getPchildNext(ns, n, i, path, pv, scratch, best, pc, pindex, r) ==
  IF r.fault THEN Fault(IF scratch THEN pv ELSE r.pv)
  ELSE IF better(r.d, r.o, best.o)
  THEN getPchildren(ns, n, i + 1, path,
                    IF scratch THEN CopyFrom(pv, r.pv, pindex) ELSE r.pv,
                    r.pv, scratch, r)
  ELSE getPchildren(ns, n, i + 1, path,
                    IF scratch THEN pv ELSE r.pv,
                    r.pv, scratch, best)

\* ------------------------------------------------------------ route patterns
\* the patterns registered by the tests, with the literals shortened
PAbout == <<"/", "a">>
PAdmin == <<"/", "a", "/", "a">>
PUser == <<"/", "a", "/", "{", "i", "}">>
PPost == <<"/", "a", "/", "{", "i", "?", "}">>
PFiles == <<"/", "a", "/", "{", "p", "*", "}">>
PItem == <<"/", "a", "/", "{", "s", ":", "[", "a", "]", "+", "}">>
PPage == <<"/", "a", "/", "{", "i", "}", "-", "{", "s", "}">>
\* a regex parameter whose pattern is an alternation
PAlt == <<"/", "a", "/", "{", "s", ":", "a", "|", "a", "-", "}">>

Patterns == {PAbout, PAdmin, PUser, PPost, PFiles, PItem, PPage, PAlt}

RECURSIVE SeqsUpTo(_, _)
SeqsUpTo(S, k) ==
  IF k = 0 THEN {<<>>}
  ELSE LET prev == SeqsUpTo(S, k - 1)
       IN prev \cup {Append(s, b) : s \in {t \in prev : Len(t) = k - 1}, b \in S}

\* request paths: every route of Patterns starts with "/a", so the paths are
\* "/a" followed by up to MaxTail bytes, and the paths of up to two bytes
Paths ==
  SeqsUpTo(PathBytes, 2)
    \cup {<<"/", "a">> \o s : s \in SeqsUpTo(PathBytes, MaxTail)}

\* ------------------------------------------------------------ named routes
\* newRoute: the registered path of a route of a group; a final '*' becomes
\* the token {:.*}
routePath(prefix, path) ==
  IF EndsWith(prefix \o path, "*")
  THEN Take(prefix \o path, Len(prefix \o path) - 1)
         \o <<"{", ":", ".", "*", "}">>
  ELSE prefix \o path

\* the name of the token path[start+1 .. i-1] (0-based, as in the code): cut
\* at the first ':'
templateName(path, start, i) ==
  IF IndexByte(SubSeq(path, start + 2, i), ":") > 0
  THEN SubSeq(path, start + 2,
              start + IndexByte(SubSeq(path, start + 2, i), ":"))
  ELSE SubSeq(path, start + 2, i)

\* the loop of buildURLTemplate; i, start and end are the code's 0-based
\* indices, -1 for unset
RECURSIVE templateLoop(_, _, _, _, _)
templateLoop(path, i, template, start, end) ==
  IF i >= Len(path) THEN
    IF end < 0 THEN path
    ELSE IF end < Len(path) - 1 THEN template \o Drop(path, end + 1)
    ELSE template
  ELSE IF path[i + 1] = "{" /\ start < 0 THEN
    templateLoop(path, i + 1, template, i, end)
  ELSE IF path[i + 1] = "}" /\ start >= 0 THEN
    templateLoop(path, i + 1,
                 template \o SubSeq(path, end + 2, start) \o <<"{">>
                   \o templateName(path, start, i) \o <<"}">>,
                 -1, i)
  ELSE templateLoop(path, i + 1, template, start, end)

buildURLTemplate(path) == templateLoop(path, 0, <<>>, -1, -1)

\* an interface{} argument holding a string or an int
StrArg(str) == [isInt |-> FALSE, s |-> str, n |-> 0]
IntArg(n) == [isInt |-> TRUE, s |-> <<>>, n |-> n]

Digit(n) == <<"0", "1", "2", "3", "4", "5", "6", "7", "8", "9">>[n + 1]

RECURSIVE Decimal(_)
Decimal(n) ==
  IF n < 10 THEN <<Digit(n)>> ELSE Append(Decimal(n \div 10), Digit(n % 10))

\* fmt.Sprint of an argument: a string is itself, an int its decimal form
Sprint(v) == IF v.isInt THEN Decimal(v.n) ELSE v.s

\* url.QueryEscape on the bytes of the model: letters, digits, '-' and '.'
\* stay, every other byte becomes %XX
Unreserved ==
  {"a", "b", "i", "s", "p", "-", ".",
   "0", "1", "2", "3", "4", "5", "6", "7", "8", "9"}

HexOf ==
  [b \in {"/", "{", "}", ":", "?", "*", "[", "]", "+", "|"} |->
     CASE b = "/" -> <<"2", "F">>
       [] b = "{" -> <<"7", "B">>
       [] b = "}" -> <<"7", "D">>
       [] b = ":" -> <<"3", "A">>
       [] b = "?" -> <<"3", "F">>
       [] b = "*" -> <<"2", "A">>
       [] b = "[" -> <<"5", "B">>
       [] b = "]" -> <<"5", "D">>
       [] b = "+" -> <<"2", "B">>
       [] b = "|" -> <<"7", "C">>]

RECURSIVE QueryEscape(_)
QueryEscape(v) ==
  IF v = <<>> THEN <<>>
  ELSE (IF v[1] \in Unreserved THEN <<v[1]>> ELSE <<"%">> \o HexOf[v[1]])
         \o QueryEscape(Tail(v))

\* strings.Replace(s, old, new, -1) for a non-empty old
RECURSIVE Replace(_, _, _)
Replace(str, old, new) ==
  IF str = <<>> THEN <<>>
  ELSE IF HasPrefix(str, old) THEN new \o Replace(Drop(str, Len(old)), old, new)
  ELSE <<str[1]>> \o Replace(Tail(str), old, new)

\* the loop of Route.URL from the 0-based index i: every argument is taken
\* as a name, the argument after it as its value
RECURSIVE urlLoop(_, _, _)
urlLoop(str, pairs, i) ==
  IF i >= Len(pairs) THEN str
  ELSE urlLoop(Replace(str,
                       <<"{">> \o Sprint(pairs[i + 1]) \o <<"}">>,
                       IF i < Len(pairs) - 1
                       THEN QueryEscape(Sprint(pairs[i + 2])) ELSE <<>>),
               pairs, i + 1)

URL(template, pairs) == urlLoop(template, pairs, 0)

\* the arguments of URL: up to MaxPairs name/value pairs
ArgNames == {StrArg(<<"i">>), StrArg(<<"s">>), StrArg(<<"p">>)}
ArgValues == {StrArg(<<"s">>), StrArg(<<"a", "/", "a">>), IntArg(12)}

RECURSIVE PairLists(_)
PairLists(k) ==
  IF k = 0 THEN {<<>>}
  ELSE PairLists(k - 1)
         \cup {q \o <<n, v>> : q \in {t \in PairLists(k - 1) : Len(t) = 2 * (k - 1)},
                                n \in ArgNames, v \in ArgValues}

\* ------------------------------------------------------------------- router
\* the methods that have a tree, in the order findAllowedMethods probes them
MethodOrder ==
  <<"GET", "HEAD", "POST", "PUT", "PATCH", "DELETE", "CONNECT", "OPTIONS",
    "TRACE">>

Methods == {MethodOrder[i] : i \in 1..Len(MethodOrder)}

\* the method names in the order of sort.Strings
SortedMethods ==
  <<"CONNECT", "DELETE", "GET", "HEAD", "OPTIONS", "PATCH", "POST", "PUT",
    "TRACE">>

\* a *tree: its nodes and its counter; the nil tree has no node.  chains
\* holds the handler chain of every Add, by order: a node's handlers field
\* is the order of the Add that attached them
NilTree == [nodes |-> <<>>, count |-> 0, chains |-> <<>>]

StatusOK == 200
StatusBadRequest == 400
StatusNotFound == 404
StatusMethodNotAllowed == 405
StatusInternalServerError == 500

\* combineHandlers(h1, h2)
combineHandlers(h1, h2) == h1 \o h2

\* New(): no tree, the root group with the empty prefix, the fallback chain
\* MethodNotAllowedHandler, NotFoundHandler
NewZeno ==
  [trees |-> [m \in Methods |-> NilTree],
   maxParams |-> 0,
   notFound |-> <<"MethodNotAllowed", "NotFound">>,
   notFoundHandlers |-> <<"MethodNotAllowed", "NotFound">>,
   panic |-> FALSE]

\* treeForMethod: the nil tree for a method outside the nine
treeForMethod(z, method) ==
  IF method \in Methods THEN z.trees[method] ELSE NilTree

\* tree.Add on t (a new tree when t is nil), the chain stored under its order
treeAdd(t, r, hh) ==
  [nodes |-> r.nodes, count |-> t.count + 1, chains |-> Append(t.chains, hh)]

treeOrNew(t) == IF t.nodes = <<>> THEN [t EXCEPT !.nodes = newTree] ELSE t

\* mutant: maxParams is what the last Add returned
zenoAddResult_Last(z, method, t, r, hh) ==
  [z EXCEPT !.trees[method] = treeAdd(t, r, hh),
            !.maxParams = r.pn,
            !.panic = r.panic]

\* the rest of Zeno.add once tree.Add has returned r: the tree holds the
\* route and maxParams is raised to the count Add returned
zenoAddResult(z, method, t, r, hh) ==
  [z EXCEPT !.trees[method] = treeAdd(t, r, hh),
            !.maxParams = IF r.pn > @ THEN r.pn ELSE @,
            !.panic = r.panic]

zenoAddTree(z, method, t, path, hh) ==
  zenoAddResult(z, method, t, add(t.nodes, 1, path, t.count + 1, t.count + 1),
                hh)

\* a method outside the nine: setTreeForMethod keeps nothing of the new
\* tree, but maxParams follows what its Add returned
zenoAddDropped(z, r) ==
  [z EXCEPT !.maxParams = IF r.pn > @ THEN r.pn ELSE @, !.panic = r.panic]

\* Zeno.add(method, path, handlers)
zenoAdd(z, method, path, hh) ==
  IF method \in Methods
  THEN zenoAddTree(z, method, treeOrNew(z.trees[method]), path, hh)
  ELSE zenoAddDropped(z, add(newTree, 1, path, 1, 1))

\* tree.Get(path, pvalues) on a tree that is not nil
treeGet(t, path, pvalues) == get(t.nodes, 1, path, pvalues)

\* mutant: the probe leaves the first tree out
findAllowedMethods_SkipFirst(z, path) ==
  [methods |-> {m \in Methods :
                  /\ m # MethodOrder[1]
                  /\ z.trees[m].nodes # <<>>
                  /\ get(z.trees[m].nodes, 1, path, Zeros(z.maxParams)).d # Nil},
   fault |-> FALSE]

\* the check closure of findAllowedMethods for the i-th method: the buffer
\* is shared by the nine lookups
RECURSIVE checkMethods(_, _, _, _, _)
RECURSIVE checkNext(_, _, _, _, _)
checkMethods(z, path, i, pvalues, methods) ==
  IF i > Len(MethodOrder) THEN [methods |-> methods, fault |-> FALSE]
  ELSE IF z.trees[MethodOrder[i]].nodes = <<>>
  THEN checkMethods(z, path, i + 1, pvalues, methods)
  ELSE checkNext(z, path, i, methods,
                 treeGet(z.trees[MethodOrder[i]], path, pvalues))

checkNext(z, path, i, methods, r) ==
  IF r.fault THEN [methods |-> methods, fault |-> TRUE]
  ELSE checkMethods(z, path, i + 1, r.pv,
                    IF r.d # Nil THEN methods \cup {MethodOrder[i]}
                    ELSE methods)

findAllowedMethods(z, path) == checkMethods(z, path, 1, Zeros(z.maxParams), {})

\* Zeno.find: the chain of the matched route, or the fallback chain
findResult(z, t, r) ==
  IF r.fault THEN [handlers |-> <<>>, pnames |-> <<>>, pv |-> r.pv, fault |-> TRUE]
  ELSE IF r.d # Nil
  THEN [handlers |-> t.chains[r.d], pnames |-> r.names, pv |-> r.pv,
        fault |-> FALSE]
  ELSE [handlers |-> z.notFoundHandlers, pnames |-> <<>>, pv |-> r.pv,
        fault |-> FALSE]

find(z, method, path, pvalues) ==
  IF treeForMethod(z, method).nodes = <<>>
  THEN [handlers |-> z.notFoundHandlers, pnames |-> <<>>, pv |-> pvalues,
        fault |-> FALSE]
  ELSE findResult(z, treeForMethod(z, method),
                  treeGet(treeForMethod(z, method), path, pvalues))

\* ------------------------------------------------------------------ context
\* a Context serving one request: the fields of the struct, the response
\* (status, allow), the handlers invoked so far (trace), the set
\* findAllowedMethods returned (allowed), the value the last call returned
\* (err: 0 for nil, else the status of the HTTPError), the error that
\* reached HandleRequest (handled), and fault for an index out of range.
\* History: abortedAt, the number of handlers invoked when Abort was called
\* (-1: not called); uses, the requests the context has served; prev, the
\* index it had when the pool handed it out for the request
NoContext ==
  [kind |-> "new", method |-> "", path |-> <<>>, handlers |-> <<>>,
   pnames |-> <<>>, pvalues |-> <<>>, index |-> -1, status |-> StatusOK,
   allow |-> <<>>, trace |-> <<>>, allowed |-> {}, err |-> 0, handled |-> 0,
   fault |-> FALSE, abortedAt |-> -1, uses |-> 0, prev |-> -1]

\* Context.Param(name)
RECURSIVE paramFrom(_, _, _)
paramFrom(c, name, i) ==
  IF i > Len(c.pnames) THEN <<>>
  ELSE IF c.pnames[i] = name THEN c.pvalues[i]
  ELSE paramFrom(c, name, i + 1)

Param(c, name) == paramFrom(c, name, 1)

\* mutant: Abort leaves the index where it is
Abort_Noop(c) == c

\* mutant: Abort skips the next handler only
Abort_SkipOne(c) == [c EXCEPT !.index = @ + 1]

\* Context.Abort
Abort(c) == [c EXCEPT !.index = Len(c.handlers)]

\* a handler's call c.Abort(), the handlers invoked so far noted
Aborting(c) == Abort([c EXCEPT !.abortedAt = Len(c.trace)])

\* strings.Join(ms, ", "), the header kept as its pieces
RECURSIVE Join(_, _)
Join(ms, sep) ==
  IF Len(ms) = 0 THEN <<>>
  ELSE IF Len(ms) = 1 THEN ms
  ELSE <<ms[1], sep>> \o Join(Tail(ms), sep)

\* sort.Strings over a set of method names
SortStrings(set) == SelectSeq(SortedMethods, LAMBDA m : m \in set)

\* MethodNotAllowedHandler, fa being what findAllowedMethods returned
methodNotAllowed(c, fa) ==
  IF fa.fault THEN [c EXCEPT !.fault = TRUE]
  ELSE IF fa.methods = {} THEN [c EXCEPT !.allowed = {}, !.err = 0]
  ELSE Aborting([c EXCEPT
          !.allowed = fa.methods,
          !.allow = Join(SortStrings(fa.methods \cup {"OPTIONS"}), ", "),
          !.status = IF c.method # "OPTIONS" THEN StatusMethodNotAllowed ELSE @,
          !.err = 0])

Traced(c, h) == [c EXCEPT !.trace = Append(@, h)]

\* mutant: the loop goes on after a handler returned an error
returnsError_Never(c) == FALSE

\* "if err := c.handlers[c.index](c); err != nil"
returnsError(c) == c.err # 0

\* Context.Next and the handlers of the model: NotFound and
\* MethodNotAllowed are the router's; "fail" returns ErrBadRequest; "mw"
\* returns what its call to c.Next returned; "sw" calls c.Next and returns
\* nil whatever it returned; "nn" calls c.Next twice; "ab" calls c.Abort;
\* "na" calls c.Next and then c.Abort; every other handler returns nil
RECURSIVE ctxNext(_, _)
RECURSIVE nextLoop(_, _)
RECURSIVE nextAfter(_, _)
RECURSIVE invoke(_, _, _)
ctxNext(z, c) == nextLoop(z, [c EXCEPT !.index = @ + 1])

nextLoop(z, c) ==
  IF c.index < Len(c.handlers)
  THEN nextAfter(z, invoke(z, c, c.handlers[c.index + 1]))
  ELSE [c EXCEPT !.err = 0]

nextAfter(z, c) ==
  IF c.fault \/ returnsError(c) THEN c
  ELSE nextLoop(z, [c EXCEPT !.index = @ + 1])

invoke(z, c, h) ==
  CASE h = "MethodNotAllowed" ->
         methodNotAllowed(Traced(c, h), findAllowedMethods(z, c.path))
    [] h = "NotFound" -> [Traced(c, h) EXCEPT !.err = StatusNotFound]
    [] h = "fail" -> [Traced(c, h) EXCEPT !.err = StatusBadRequest]
    [] h = "mw" -> ctxNext(z, Traced(c, h))
    [] h = "sw" -> [ctxNext(z, Traced(c, h)) EXCEPT !.err = 0]
    [] h = "nn" -> [ctxNext(z, ctxNext(z, Traced(c, h))) EXCEPT !.err = 0]
    [] h = "ab" -> [Aborting(Traced(c, h)) EXCEPT !.err = 0]
    [] h = "na" -> [Aborting(ctxNext(z, Traced(c, h))) EXCEPT !.err = 0]
    [] OTHER -> [Traced(c, h) EXCEPT !.err = 0]

\* mutant: the error is not taken for an HTTPError
errorHandler_Internal(c) ==
  IF c.err # 0
  THEN [c EXCEPT !.status = StatusInternalServerError, !.handled = c.err]
  ELSE c

\* the default ErrorHandler: the status of an HTTPError
errorHandler(c) ==
  IF c.err # 0 THEN [c EXCEPT !.status = c.err, !.handled = c.err] ELSE c

serveFound(z, c, f) ==
  IF f.fault THEN [c EXCEPT !.fault = TRUE, !.pvalues = f.pv]
  ELSE errorHandler(ctxNext(z, [c EXCEPT !.handlers = f.handlers,
                                         !.pnames = f.pnames,
                                         !.pvalues = f.pv]))

\* mutant: init leaves the index of the last request
ctxInit_KeepIndex(c, method, path) ==
  [NoContext EXCEPT !.kind = "served", !.method = method, !.path = path,
                    !.handlers = c.handlers, !.pnames = c.pnames,
                    !.pvalues = c.pvalues, !.index = c.index,
                    !.uses = c.uses + 1, !.prev = c.index]

\* Context.init for a request of the method on the path: a new RequestCtx
\* (status, headers), index -1; handlers, pnames and pvalues are kept
ctxInit(c, method, path) ==
  [NoContext EXCEPT !.kind = "served", !.method = method, !.path = path,
                    !.handlers = c.handlers, !.pnames = c.pnames,
                    !.pvalues = c.pvalues, !.index = -1,
                    !.uses = c.uses + 1, !.prev = c.index]

\* the function of z.pool.New: a context with a buffer of maxParams slots
poolNew(z) == [NoContext EXCEPT !.pvalues = Zeros(z.maxParams)]

\* Zeno.HandleRequest on the context c that z.pool.Get returned
HandleRequestOn(z, c, method, path) ==
  serveFound(z, ctxInit(c, method, path), find(z, method, path, c.pvalues))

\* Zeno.HandleRequest with a context whose buffer is pvalues
HandleRequest(z, method, path, pvalues) ==
  HandleRequestOn(z, [NoContext EXCEPT !.pvalues = pvalues], method, path)

\* ------------------------------------------------------------------- groups
\* NewRouteGroup(prefix, zeno, handlers).  parent, via and uses are
\* history: the group it was made from, by which call, and the handlers
\* given to Use on it
NewRouteGroup(prefix, handlers, parent, via) ==
  [prefix |-> prefix, handlers |-> handlers, parent |-> parent, via |-> via,
   arg |-> <<>>, uses |-> <<>>]

\* RouteGroup.Group(prefix, handlers...) on the group r, the g-th group
groupOf(r, g, prefix, handlers, via) ==
  NewRouteGroup(r.prefix \o prefix,
                IF Len(handlers) = 0 THEN r.handlers ELSE handlers,
                g, via)

\* RouteGroup.Route(prefix, fn, handlers...): the group fn is called with
routeOf(r, g, prefix, handlers) ==
  groupOf(r, g, r.prefix \o prefix, handlers, "Route")

\* RouteGroup.Use(handlers...)
useOf(r, handlers) ==
  [r EXCEPT !.handlers = @ \o handlers, !.uses = @ \o handlers]

\* ------------------------------------------------------- concurrent lookups
\* node.get step by step, for goroutines that run it at the same time.  A
\* goroutine has a stack of frames, one for each call of node.get that has
\* not returned; a frame holds the call's n and path, the buffers pvalues
\* and tmp as indices into the buffers in use, bestData, bestNames and
\* bestOrder as best, scratch, the index i of the loop over n.pchildren,
\* and the place pc the call is at: "enter" before the node takes its share
\* of the path, "lit" and "pchild" while the call on the static or the
\* parametric child runs, "loop" at the head of the loop.
Goroutines == {1, 2}

Best(d, names, o) == [d |-> d, names |-> names, o |-> o]

Frame(n, path, pv) ==
  [n |-> n, path |-> path, pv |-> pv, pc |-> "enter",
   best |-> Best(Nil, <<>>, MaxInt32), tmp |-> pv, scratch |-> FALSE, i |-> 1]

IdleG ==
  [state |-> "idle", path |-> <<>>, buf |-> 0, stack |-> <<>>,
   result |-> [d |-> Nil, names |-> <<>>, pv |-> <<>>]]

\* what a step leaves: the goroutine and the buffers
Stepped(g, bs) == [g |-> g, bufs |-> bs]

Top(g) == g.stack[Len(g.stack)]

SetTop(g, f) == [g EXCEPT !.stack[Len(g.stack)] = f]

\* the frame f of the caller when the call on its child has returned r:
\* "d != nil && o < bestOrder" after lit.get and after pc.get
resumed(f, r) ==
  [f EXCEPT !.pc = "loop",
            !.best = IF better(r.d, r.o, f.best.o) THEN r ELSE @,
            !.i = IF f.pc = "pchild" THEN @ + 1 ELSE @]

\* the caller's buffers when pc.get has returned r: the copy from the
\* scratch buffer when r is better
resumedBufs(ns, f, bs, r) ==
  IF f.pc = "pchild" /\ f.scratch /\ better(r.d, r.o, f.best.o)
  THEN [bs EXCEPT ![f.pv] = CopyFrom(bs[f.pv], bs[f.tmp],
                                     ns[ns[f.n].pchildren[f.i]].pindex)]
  ELSE bs

\* the call on top of the stack returns r: to its caller, or as the result
\* of tree.Get with the buffer of the goroutine
returnTo(ns, g, bs, r) ==
  IF Len(g.stack) = 1
  THEN Stepped([g EXCEPT !.state = "done", !.stack = <<>>,
                         !.result = [d |-> r.d, names |-> r.names,
                                     pv |-> bs[g.buf]]],
               bs)
  ELSE Stepped([g EXCEPT !.stack =
                  Append(Take(g.stack, Len(g.stack) - 2),
                         resumed(g.stack[Len(g.stack) - 1], r))],
               resumedBufs(ns, g.stack[Len(g.stack) - 1], bs, r))

\* pc = "enter", c what the node left of the path: the static child, the
\* node's own handlers, then the loop
entered(ns, g, bs, f, c) ==
  IF c.fault THEN Stepped([g EXCEPT !.state = "fault"], bs)
  ELSE IF ~c.ok THEN returnTo(ns, g, bs, Best(Nil, <<>>, f.best.o))
  ELSE IF Len(c.path) > 0 /\ ns[f.n].children[c.path[1]] # Nil
  THEN IF Len(ns[f.n].pchildren) = 0
       THEN \* n = lit; goto repeat
            Stepped(SetTop(g, [f EXCEPT !.n = ns[f.n].children[c.path[1]],
                                        !.path = c.path]),
                    bs)
       ELSE Stepped([g EXCEPT !.stack =
                       Append(Take(g.stack, Len(g.stack) - 1),
                              [f EXCEPT !.path = c.path, !.pc = "lit"])
                         \o <<Frame(ns[f.n].children[c.path[1]], c.path, f.pv)>>],
                    bs)
  ELSE Stepped(SetTop(g, [f EXCEPT
                 !.path = c.path, !.pc = "loop",
                 !.best = IF ownMatch(ns[f.n], c.path)
                          THEN Best(ns[f.n].handlers, ns[f.n].pnames,
                                    ns[f.n].order)
                          ELSE @]),
               bs)

\* pc = "loop": the end of the loop, a pruned child, or the call on the
\* child with the scratch buffer made when there is a match already
looped(ns, g, bs, f) ==
  IF f.i > Len(ns[f.n].pchildren) THEN returnTo(ns, g, bs, f.best)
  ELSE IF pruned(ns[ns[f.n].pchildren[f.i]], f.best.o)
  THEN Stepped(SetTop(g, [f EXCEPT !.i = @ + 1]), bs)
  ELSE IF f.best.d # Nil /\ ~f.scratch
  THEN Stepped([g EXCEPT !.stack =
                  Append(Take(g.stack, Len(g.stack) - 1),
                         [f EXCEPT !.pc = "pchild", !.scratch = TRUE,
                                   !.tmp = Len(bs) + 1])
                    \o <<Frame(ns[f.n].pchildren[f.i], f.path, Len(bs) + 1)>>],
               Append(bs, Zeros(Len(bs[f.pv]))))
  ELSE Stepped([g EXCEPT !.stack =
                  Append(Take(g.stack, Len(g.stack) - 1),
                         [f EXCEPT !.pc = "pchild"])
                    \o <<Frame(ns[f.n].pchildren[f.i], f.path, f.tmp)>>],
               bs)

\* one step of the goroutine g
stepGet(ns, g, bs) ==
  IF Top(g).pc = "enter"
  THEN entered(ns, g,
               [bs EXCEPT ![Top(g).pv] =
                  Consume(ns[Top(g).n], Top(g).path, bs[Top(g).pv]).pv],
               Top(g),
               Consume(ns[Top(g).n], Top(g).path, bs[Top(g).pv]))
  ELSE looped(ns, g, bs, Top(g))

\* mutant: the pool hands the first buffer out again while it is in use
ownBuffer_Shared(bs) == 1

\* z.pool.Get: a Context, and with it a buffer, that no other request
\* holds; here a new one
ownBuffer(bs) == Len(bs) + 1

\* ------------------------------------------------------------- state machine
VARIABLES
  nodes,      \* the heap of nodes of one tree; nodes[1] is tree.root
  count,      \* tree.count
  routes,     \* history: the keys passed to Add, in call order
  maxRet,     \* the largest value Add has returned
  op,         \* the last call and what it returned
  url,        \* a named route: its pattern, its template, the last URL call
  zeno,       \* the Zeno struct: trees, maxParams, fallback chain
  groups,     \* the RouteGroups; groups[1] is the root group of zeno
  regs,       \* history: the routes registered through the groups
  ctx,        \* the Context of the request served
  procs       \* the goroutines that run tree.Get, and their buffers

treeVars == <<nodes, count, routes, maxRet, op>>
appVars == <<zeno, groups, regs, ctx, procs>>
vars ==
  <<nodes, count, routes, maxRet, op, url, zeno, groups, regs, ctx, procs>>

NoRoute ==
  [kind |-> "new", path |-> <<>>, template |-> <<>>, pairs |-> <<>>,
   out |-> <<>>]

NoOp ==
  [kind |-> "new", key |-> <<>>, pn |-> 0, panic |-> FALSE,
   d |-> Nil, names |-> <<>>, pv |-> <<>>, fault |-> FALSE]

Init ==
  /\ nodes = newTree
  /\ count = 0
  /\ routes = <<>>
  /\ maxRet = 0
  /\ op = NoOp
  /\ url = NoRoute
  /\ zeno = NewZeno
  /\ groups = <<NewRouteGroup(<<>>, <<>>, 0, "New")>>
  /\ regs = <<>>
  /\ ctx = NoContext
  /\ procs = [g |-> [p \in Goroutines |-> IdleG], bufs |-> <<>>]

\* tree.Add(key, handlers): the handler chain of the k-th call is named k.
\* The routes are registered before the lookups start.
Add(key) ==
  /\ count < MaxRoutes
  /\ ~op.panic
  /\ op.kind # "get"
  /\ \A p \in Goroutines : procs.g[p].state = "idle"
  /\ LET r == add(nodes, 1, key, count + 1, count + 1)
     IN /\ nodes' = r.nodes
        /\ count' = count + 1
        /\ routes' = Append(routes, key)
        /\ maxRet' = IF r.pn > maxRet THEN r.pn ELSE maxRet
        /\ op' = [NoOp EXCEPT !.kind = "add", !.key = key, !.pn = r.pn,
                              !.panic = r.panic]
  /\ UNCHANGED <<url, appVars>>

\* tree.Get(path, pvalues) with a buffer of maxRet stale slots.  Get leaves
\* the tree alone and its result does not depend on the call before it: a
\* lookup that follows a lookup reaches no other state than the first, so
\* each behaviour shows one lookup.
Get(path) ==
  /\ ~op.panic
  /\ op.kind # "get"
  /\ LET r == get(nodes, 1, path, [i \in 1..maxRet |-> Stale])
     IN op' = [NoOp EXCEPT !.kind = "get", !.key = path, !.d = r.d,
                           !.names = r.names, !.pv = r.pv, !.fault = r.fault]
  /\ UNCHANGED <<nodes, count, routes, maxRet, url, appVars>>

Next ==
  \/ \E key \in Patterns : Add(key)
  \/ \E path \in Paths : Get(path)

Spec == Init /\ [][Next]_vars

\* patterns in which content follows a wildcard token: a literal, a token
PWildLit == <<"/", "a", "/", "{", "p", "*", "}", "a">>
PWildTok == <<"/", "a", "/", "{", "p", "*", "}", "{", "i", "}">>

WildPatterns == {PAbout, PUser, PFiles, PWildLit, PWildTok}

\* the tree under registrations that include misplaced wildcards
NextWildcard ==
  \/ \E key \in WildPatterns : Add(key)
  \/ \E path \in Paths : Get(path)

SpecWildcard == Init /\ [][NextWildcard]_vars

\* the paths given to the route constructors: the patterns of the tree and
\* the '*' shorthand
PStar == <<"/", "a", "/", "*">>

RoutePaths == Patterns \cup {PStar}

\* newRoute(path, group) on the root group, whose prefix is empty
NewRoute(path) ==
  /\ url.kind = "new"
  /\ url' = [NoRoute EXCEPT !.kind = "route", !.path = routePath(<<>>, path),
                            !.template = buildURLTemplate(routePath(<<>>, path))]
  /\ UNCHANGED <<treeVars, appVars>>

\* route.URL(pairs...)
RouteURL(pairs) ==
  /\ url.kind = "route"
  /\ url' = [url EXCEPT !.kind = "url", !.pairs = pairs,
                        !.out = URL(url.template, pairs)]
  /\ UNCHANGED <<treeVars, appVars>>

NextURL ==
  \/ \E path \in RoutePaths : NewRoute(path)
  \/ \E pairs \in PairLists(MaxPairs) : RouteURL(pairs)

SpecURL == Init /\ [][NextURL]_vars

\* Routes are registered before the server runs (Run blocks in the serve
\* loop), so the registrations come before the request; the context of the
\* request is new, its buffer made with the final maxParams.
Registering == ctx.kind = "new" /\ ~zeno.panic

\* group.To / group.Get ...: newRoute(path, group) and route.add(method, own)
Handle(g, method, path, own) ==
  /\ Registering
  /\ Len(regs) < MaxRoutes
  /\ zeno' = zenoAdd(zeno, method, routePath(groups[g].prefix, path),
                     combineHandlers(groups[g].handlers, own))
  /\ regs' = Append(regs, [g |-> g, method |-> method,
                           path |-> routePath(groups[g].prefix, path),
                           own |-> own,
                           chain |-> combineHandlers(groups[g].handlers, own)])
  /\ UNCHANGED <<treeVars, url, procs, groups, ctx>>

\* group.Use(handlers...); on the root group it is Zeno.Use, which rebuilds
\* the fallback chain
Use(g, handlers) ==
  /\ Registering
  /\ groups' = [groups EXCEPT ![g] = useOf(@, handlers)]
  /\ zeno' = IF g = 1
             THEN [zeno EXCEPT !.notFoundHandlers =
                     combineHandlers(useOf(groups[1], handlers).handlers,
                                     zeno.notFound)]
             ELSE zeno
  /\ UNCHANGED <<treeVars, url, procs, regs, ctx>>

\* group.Group(prefix, handlers...)
Group(g, prefix, handlers) ==
  /\ Registering
  /\ groups' = Append(groups, [groupOf(groups[g], g, prefix, handlers, "Group")
                                 EXCEPT !.arg = prefix])
  /\ UNCHANGED <<treeVars, url, procs, zeno, regs, ctx>>

\* group.Route(prefix, fn): the group passed to fn; what fn registers on it
\* are the Handle steps that follow
Route(g, prefix) ==
  /\ Registering
  /\ groups' = Append(groups, [routeOf(groups[g], g, prefix, <<>>)
                                 EXCEPT !.arg = prefix])
  /\ UNCHANGED <<treeVars, url, procs, zeno, regs, ctx>>

\* app.HandleRequest(ctx) for a request of the method on the path
Serve(method, path) ==
  /\ Registering
  /\ ctx' = HandleRequest(zeno, method, path, poolNew(zeno).pvalues)
  /\ UNCHANGED <<treeVars, url, procs, zeno, groups, regs>>

\* app.HandleRequest(ctx) when z.pool.Get returns the context that the
\* request before put back, as it was left
ServePooled(method, path) ==
  /\ ctx.kind = "served" /\ ~ctx.fault /\ ~zeno.panic
  /\ ctx.uses < MaxRequests
  /\ ctx' = HandleRequestOn(zeno, ctx, method, path)
  /\ UNCHANGED <<treeVars, url, procs, zeno, groups, regs>>

\* the routes of the server specification, registered on the root group
ServeRoutes ==
  {[method |-> "GET", path |-> PAbout, own |-> <<"h">>],
   [method |-> "POST", path |-> PAbout, own |-> <<"h">>],
   [method |-> "OPTIONS", path |-> PAbout, own |-> <<"h">>],
   [method |-> "GET", path |-> PUser, own |-> <<"mw", "fail", "h">>],
   [method |-> "POST", path |-> PUser, own |-> <<"sw", "fail", "h">>],
   [method |-> "DELETE", path |-> PUser, own |-> <<"fail", "h">>],
   [method |-> "PUT", path |-> PAdmin, own |-> <<"mw", "mw", "h">>],
   [method |-> "GET", path |-> PStar, own |-> <<"h">>]}

\* the requests: the methods of the routes, one of the nine without a route
\* and one outside the nine
ServeMethods == {"GET", "POST", "DELETE", "PUT", "OPTIONS", "TRACE", "BREW"}

ServePaths ==
  SeqsUpTo({"/", "a"}, 2)
    \cup {<<"/", "a">> \o t : t \in SeqsUpTo({"/", "a"}, MaxServeTail)}

NextServe ==
  \/ \E r \in ServeRoutes : Handle(1, r.method, r.path, r.own)
  \/ \E method \in ServeMethods, path \in ServePaths : Serve(method, path)

SpecServe == Init /\ [][NextServe]_vars

\* the number of Use, Group and Route calls made
RECURSIVE UseCount(_)
UseCount(g) == IF g = 0 THEN 0 ELSE Len(groups[g].uses) + UseCount(g - 1)

SetupCalls == Len(groups) - 1 + UseCount(Len(groups))

GroupPaths == {<<>>} \cup {p \in SeqsUpTo({"/", "a"}, 8) :
                              Len(p) % 2 = 0 /\
                              \A i \in 1..Len(p) : p[i] = IF i % 2 = 1 THEN "/" ELSE "a"}

\* groups, subgroups and Use, with GET routes /a registered on them
NextGroup ==
  \/ \E g \in 1..Len(groups) :
        SetupCalls < MaxSetup /\ Use(g, <<"u">>)
  \/ \E g \in 1..Len(groups), hs \in {<<>>, <<"g">>} :
        SetupCalls < MaxSetup /\ Group(g, PAbout, hs)
  \/ \E g \in 1..Len(groups) :
        SetupCalls < MaxSetup /\ Route(g, PAbout)
  \/ \E g \in 1..Len(groups) : Handle(g, "GET", PAbout, <<"h">>)
  \/ \E path \in GroupPaths : Serve("GET", path)

SpecGroup == Init /\ [][NextGroup]_vars

\* routes of up to two parameters under two of the nine methods and under
\* a method outside them
RouterMethods == {"GET", "POST", "BREW"}

RouterPatterns == {PAbout, PUser, PPage}

\* the requests of the router specification: the served paths and two
\* paths of /a/{i}-{s}
RouterPaths ==
  ServePaths \cup {<<"/", "a", "/", "a", "-", "a">>,
                   <<"/", "a", "/", "-", "a">>}

NextRouter ==
  \/ \E method \in RouterMethods, path \in RouterPatterns :
        Handle(1, method, path, <<"h">>)
  \/ \E method \in RouterMethods, path \in RouterPaths : Serve(method, path)

SpecRouter == Init /\ [][NextRouter]_vars

\* handler chains: plain handlers, middleware that calls Next (once, twice,
\* returning or dropping its result), handlers that call Abort (first in
\* the chain, below a middleware, after their own Next) and one that fails
ChainOwn ==
  {<<"h", "t">>,
   <<"mw", "h", "t">>,
   <<"sw", "nn", "h">>,
   <<"ab", "h", "t">>,
   <<"mw", "ab", "h">>,
   <<"h", "na", "t">>,
   <<"mw", "fail", "h">>}

ChainMethods == {"GET", "POST"}

ChainPaths == {PAbout, PAdmin, <<"/", "a", "/">>}

\* routes with the chains under GET on /a and /a/{i}, then requests served
\* one after the other by the same pooled context
NextChain ==
  \/ \E path \in {PAbout, PUser}, own \in ChainOwn :
        Handle(1, "GET", path, own)
  \/ \E method \in ChainMethods, path \in ChainPaths : Serve(method, path)
  \/ \E method \in ChainMethods, path \in ChainPaths :
        ServePooled(method, path)

SpecChain == Init /\ [][NextChain]_vars

\* a goroutine calls tree.Get(path, pvalues) with the buffer of its context
Start(p, path) ==
  /\ ~op.panic
  /\ procs.g[p].state = "idle"
  /\ procs' =
       [g |-> [procs.g EXCEPT ![p] =
                 [IdleG EXCEPT !.state = "run", !.path = path,
                               !.buf = ownBuffer(procs.bufs),
                               !.stack = <<Frame(1, path,
                                                 ownBuffer(procs.bufs))>>]],
        bufs |-> IF ownBuffer(procs.bufs) > Len(procs.bufs)
                 THEN Append(procs.bufs, [i \in 1..maxRet |-> Stale])
                 ELSE procs.bufs]
  /\ UNCHANGED <<treeVars, url, zeno, groups, regs, ctx>>

\* the goroutine p takes one step of its lookup; the tree is only read
StepGet(p) ==
  /\ procs.g[p].state = "run"
  /\ procs' =
       [g |-> [procs.g EXCEPT ![p] = stepGet(nodes, @, procs.bufs).g],
        bufs |-> stepGet(nodes, procs.g[p], procs.bufs).bufs]
  /\ UNCHANGED <<treeVars, url, zeno, groups, regs, ctx>>

\* routes that share nodes, and paths whose lookups try several branches
ConcPatterns == {PAdmin, PUser, PPage, PFiles}

ConcPaths ==
  {<<"/", "a", "/", "a">>,
   <<"/", "a", "/", "a", "-", "a">>,
   <<"/", "a", "/", "a", "/", "a">>}

\* the tree is built, then the goroutines look paths up at the same time
NextConc ==
  \/ \E key \in ConcPatterns : Add(key)
  \/ \E p \in Goroutines, path \in ConcPaths : Start(p, path)
  \/ \E p \in Goroutines : StepGet(p)

SpecConc == Init /\ [][NextConc]_vars

\* ------------------------------------------------------------------ claims
IsGet == op.kind = "get"

Range(q) == {q[i] : i \in 1..Len(q)}

Registered(p) == \E k \in 1..Len(routes) : routes[k] = p

\* the call that registered p first; its handler chain is named by the index
FirstIndex(p) ==
  CHOOSE k \in 1..Len(routes) :
    routes[k] = p /\ \A j \in 1..(k - 1) : routes[j] # p

\* the buffer Get starts from
FreshBuffer == [i \in 1..maxRet |-> Stale]

\* the paths p matches in a tree that holds no other route
AloneMatches ==
  [p \in Patterns |->
     LET r == add(newTree, 1, p, 1, 1)
     IN {path \in Paths :
           get(r.nodes, 1, path, [i \in 1..r.pn |-> Stale]).d # Nil}]

MatchesAlone(p, path) == path \in AloneMatches[p]

\* no route registered before call k matches path on its own
NoEarlierMatch(k, path) ==
  \A j \in 1..(k - 1) : routes[j] = routes[k] \/ ~MatchesAlone(routes[j], path)

\* no route other than p, registered before or after it, matches path
NoOtherMatch(p, path) ==
  \A j \in 1..Len(routes) : routes[j] = p \/ ~MatchesAlone(routes[j], path)

\* a registered pattern continues pattern p with a literal byte of seg
Continued(p, seg) ==
  \E j \in 1..Len(routes) :
    /\ HasPrefix(routes[j], p)
    /\ Len(routes[j]) > Len(p)
    /\ routes[j][Len(p) + 1] \in Range(seg)

Count(q, c) == Cardinality({i \in 1..Len(q) : q[i] = c})

\* the literal text before the first token of p
LitPrefix(p) == Take(p, IndexByte(p, "{") - 1)

\* the text between the braces of the last token of p
LastToken(p) ==
  LET o == CHOOSE i \in 1..Len(p) :
             p[i] = "{" /\ \A j \in (i + 1)..Len(p) : p[j] # "{"
  IN SubSeq(p, o + 1, Len(p) - 1)

\* p is a literal prefix followed by exactly one token that ends the pattern
OneTokenTail(p) ==
  /\ Count(p, "{") = 1
  /\ Len(p) > 0 /\ p[Len(p)] = "}"
  /\ IndexByte(p, "{") > 1

\* ... and the token is a plain parameter {name}
PlainTail(p) ==
  /\ OneTokenTail(p)
  /\ Range(LastToken(p)) \cap {":", "?", "*"} = {}

\* C1: when a pattern made of a literal prefix and one plain parameter is
\* registered, Get of prefix ++ segment (segment non-empty, without '/')
\* returns that route's handlers, its one parameter name, and the segment
\* as the value in slot 0 of the buffer; the tree may hold any other routes
\* as long as none registered earlier matches the path and none continues
\* the parameter token with a literal byte of the segment.
C1_PlainParam ==
  IsGet =>
    \A k \in 1..Len(routes) :
      LET p == routes[k]
          prefix == LitPrefix(p)
          seg == Drop(op.key, Len(prefix))
      IN (/\ PlainTail(p)
          /\ HasPrefix(op.key, prefix)
          /\ seg # <<>> /\ "/" \notin Range(seg)
          /\ FirstIndex(p) = k
          /\ NoEarlierMatch(k, op.key)
          /\ ~Continued(p, seg))
         => /\ op.d = k
            /\ op.names = <<LastToken(p)>>
            /\ op.pv[1] = seg

C1_Witness ==
  /\ IsGet
  /\ Len(routes) = 2 /\ routes[2] = PUser
  /\ op.key = <<"/", "a", "/", "a", "-", "a">>
  /\ op.d = 2 /\ op.pv[1] = <<"a", "-", "a">>

\* the request paths of the examples
PathAbout == <<"/", "a">>
PathAdmin == <<"/", "a", "/", "a">>

RECURSIVE AllMatches(_, _, _, _)
AllMatches(ns, n, path, pv) ==
  LET c == Consume(ns[n], path, pv)
      lit == IF Len(c.path) > 0 THEN ns[n].children[c.path[1]] ELSE Nil
  IN IF ~c.ok THEN {}
     ELSE (IF Len(c.path) = 0 /\ ns[n].handlers # Nil
           THEN {[d |-> ns[n].handlers, o |-> ns[n].order]} ELSE {})
          \cup (IF lit # Nil THEN AllMatches(ns, lit, c.path, c.pv) ELSE {})
          \cup UNION {AllMatches(ns, ns[n].pchildren[i], c.path, c.pv) :
                        i \in 1..Len(ns[n].pchildren)}

\* C3: Get returns the match of lowest insertion order among all the
\* matches its nodes can find (the static child's, every parametric
\* child's, the node's own handlers), and none when there is none.
C3_LowestOrder ==
  IsGet =>
    LET all == AllMatches(nodes, 1, op.key, FreshBuffer)
    IN IF all = {} THEN op.d = Nil
       ELSE \E m \in all : m.d = op.d /\ \A x \in all : m.o <= x.o

\* two parametric routes match /a/a; the one registered first is returned,
\* here the plain parameter before the regex-constrained one
C3_Witness ==
  /\ IsGet /\ routes = <<PUser, PItem>> /\ op.key = PathAdmin
  /\ Cardinality(AllMatches(nodes, 1, op.key, FreshBuffer)) = 2
  /\ op.d = 1

\* the token is an optional parameter {name?}
OptionalTail(p) ==
  /\ OneTokenTail(p)
  /\ LastToken(p)[Len(LastToken(p))] = "?"
  /\ Range(LastToken(p)) \cap {":", "*"} = {}

\* C4 (as claimed): for a route that is a literal prefix followed by an
\* optional parameter, alone in its tree, Get of the prefix without its
\* final '/' returns the route with the parameter set to the empty string.
C4_OptionalWithoutSlash ==
  (/\ IsGet /\ Len(routes) = 1 /\ OptionalTail(routes[1])
   /\ op.key = Take(LitPrefix(routes[1]), Len(LitPrefix(routes[1])) - 1))
    => op.d = 1 /\ op.pv = <<<<>>>>

\* the token is a wildcard {name*}
WildcardTail(p) ==
  /\ OneTokenTail(p)
  /\ LastToken(p)[Len(LastToken(p))] = "*"
  /\ Range(LastToken(p)) \cap {":", "?"} = {}

\* C5: when a pattern made of a literal prefix and a wildcard is
\* registered and no route registered earlier matches the path, Get of a
\* path that begins with the prefix returns that route with the whole rest
\* of the path, '/' included, as the value; a path that does not begin with
\* the whole prefix never returns that route.
C5_Wildcard ==
  IsGet =>
    \A k \in 1..Len(routes) :
      LET p == routes[k]
          prefix == LitPrefix(p)
      IN (WildcardTail(p) /\ FirstIndex(p) = k) =>
           /\ (HasPrefix(op.key, prefix) /\ NoEarlierMatch(k, op.key))
                => /\ op.d = k
                   /\ op.names = <<Take(LastToken(p), Len(LastToken(p)) - 1)>>
                   /\ op.pv[1] = Drop(op.key, Len(prefix))
           /\ ~HasPrefix(op.key, prefix) => op.d # k

C5_Witness ==
  /\ IsGet /\ Len(routes) = 2 /\ routes[1] = PFiles
  /\ op.key = <<"/", "a", "/", "a", "/", "-">>
  /\ op.d = 1 /\ op.pv[1] = <<"a", "/", "-">>

\* the token is a regex-constrained parameter {name:pattern}
RegexTail(p) ==
  /\ OneTokenTail(p)
  /\ ":" \in Range(LastToken(p))

RegexOf(p) == Drop(LastToken(p), IndexByte(LastToken(p), ":"))

\* some alternative of the pattern matches s from its first byte and ends
\* at its last
MatchesWhole(pattern, s) ==
  LET alts == SplitAlt(pattern, 1, <<>>, FALSE)
  IN \E a \in 1..Len(alts) : MatchSeq(alts[a], 1, s, 0) = Len(s)

\* C6 (as claimed): a route that is a literal prefix followed by a
\* regex-constrained parameter is returned only for a path whose rest,
\* after the prefix, the pattern matches from the first byte to the end.
C6_RegexAnchored ==
  IsGet =>
    \A k \in 1..Len(routes) :
      (RegexTail(routes[k]) /\ op.d = k)
        => /\ HasPrefix(op.key, LitPrefix(routes[k]))
           /\ MatchesWhole(RegexOf(routes[k]),
                           Drop(op.key, Len(LitPrefix(routes[k]))))

\* C7: the route /page/{year}-{slug} is returned only for a path
\* prefix ++ x ++ "-" ++ y where x holds no '-' and no '/', and y is not
\* empty and holds no '/'; the buffer then holds x and y.  It is returned
\* for every such path when no route registered earlier matches the path.
C7_TwoParams ==
  (IsGet /\ Registered(PPage)) =>
    LET k == FirstIndex(PPage)
        prefix == LitPrefix(PPage)
        rest == Drop(op.key, Len(prefix))
        sep == IndexByte(rest, "-")
        x == Take(rest, sep - 1)
        y == Drop(rest, sep)
        shaped == /\ HasPrefix(op.key, prefix)
                  /\ sep > 0
                  /\ "/" \notin Range(x)
                  /\ y # <<>> /\ "/" \notin Range(y)
    IN /\ op.d = k
            => shaped /\ op.names = <<<<"i">>, <<"s">>>> /\ op.pv = <<x, y>>
       /\ (shaped /\ NoEarlierMatch(k, op.key)) => op.d = k

C7_Witness ==
  /\ IsGet /\ routes = <<PUser, PPage>>
  /\ op.key = <<"/", "a", "/", "a", "-", "a">>
  /\ op.d = 2 /\ op.pv = <<<<"a">>, <<"a">>>>

\* the pattern with its i-th token replaced by pv[i], from token number i on
RECURSIVE Subst(_, _, _)
Subst(pat, pv, i) ==
  IF pat = <<>> THEN <<>>
  ELSE IF pat[1] = "{" /\ IndexByte(pat, "}") > 0
       THEN pv[i] \o Subst(Drop(pat, IndexByte(pat, "}")), pv, i + 1)
       ELSE <<pat[1]>> \o Subst(Tail(pat), pv, i + 1 - 1)

\* C8: when Get returns a route, the whole path has been consumed by that
\* route: the literals of its pattern and the values captured for its
\* parameters, in pattern order, make up the path, with no byte left over;
\* /post/42/extra does not match /post/{id?}.
C8_FullPath ==
  IsGet =>
    /\ op.d # Nil => Subst(routes[op.d], op.pv, 1) = op.key
    /\ (routes = <<PPost>> /\ op.key = <<"/", "a", "/", "a", "/", "a">>)
         => op.d = Nil

\* the lookup passes the node of /a, which has handlers, and fails on the
\* bytes left over
C8_Witness ==
  /\ IsGet /\ routes = <<PAbout, PPost>>
  /\ op.key = <<"/", "a", "/", "a", "/", "a">>
  /\ op.d = Nil /\ op.pv = <<<<"a">>>>

\* C9: with a buffer as long as the largest value Add returned, Get ends
\* without an index out of range and returns a registered handler chain or
\* nothing.
C9_NoFault ==
  IsGet => /\ ~op.fault
           /\ op.d \in 0..count
           /\ Len(op.pv) = maxRet

C9_Witness ==
  /\ IsGet /\ maxRet = 2 /\ op.d # Nil /\ Len(op.names) = 2
  /\ op.pv[2] # Stale

IsLiteral(p) == "{" \notin Range(p)

\* C10: an Add of a literal path that is already registered changes the
\* result of no Get: handlers, names, order and buffer are the same for
\* every path before and after it.
C10_DuplicateLiteral ==
  [][(op'.kind = "add" /\ IsLiteral(op'.key) /\ Registered(op'.key))
       => \A path \in Paths :
            get(nodes', 1, path, FreshBuffer) = get(nodes, 1, path, FreshBuffer)]_vars

\* the literal path registered twice still returns the first handlers
C10_Witness ==
  /\ IsGet /\ routes = <<PAdmin, PAdmin>> /\ op.key = PathAdmin /\ op.d = 1

\* a wildcard token of the pattern is followed by further content
WildcardNotLast(p) ==
  \E i \in 1..(Len(p) - 1) : p[i] = "*" /\ p[i + 1] = "}" /\ i + 1 < Len(p)

\* C11 (as claimed): Add panics for every pattern in which a wildcard token
\* is followed by further content, whatever the tree holds already; the
\* pattern never gets a node with handlers.
C11_WildcardTerminal ==
  (op.kind = "add" /\ WildcardNotLast(op.key))
    => /\ op.panic
       /\ \A n \in 1..Len(nodes) : nodes[n].handlers # Len(routes)

\* the template with, for each name/value pair from the 0-based index i on,
\* {name} replaced by the escaped string form of the pair's value
RECURSIVE PairwiseURL(_, _, _)
PairwiseURL(str, pairs, i) ==
  IF i + 1 >= Len(pairs) THEN str
  ELSE PairwiseURL(Replace(str,
                           <<"{">> \o Sprint(pairs[i + 1]) \o <<"}">>,
                           QueryEscape(Sprint(pairs[i + 2]))),
                   pairs, i + 2)

\* C15 (as claimed): URL with alternating name/value arguments returns the
\* template with each {name} replaced by the query-escaped string form of
\* the value paired with that name, and by nothing else.
C15_URLPairs ==
  url.kind = "url" => url.out = PairwiseURL(url.template, url.pairs, 0)

\* the tokens of the pattern reduced to {name}: the ':' and what follows
\* it, and the '?' and '*' marks around the name, removed
RECURSIVE CleanTemplate(_)
CleanTemplate(p) ==
  IF p = <<>> THEN <<>>
  ELSE IF p[1] = "{" /\ IndexByte(p, "}") > 0
  THEN LET token == SubSeq(p, 2, IndexByte(p, "}") - 1)
           colon == IndexByte(token, ":")
           name == IF colon > 0 THEN Take(token, colon - 1) ELSE token
       IN <<"{">> \o SelectSeq(name, LAMBDA b : b \notin {"?", "*"}) \o <<"}">>
            \o CleanTemplate(Drop(p, IndexByte(p, "}")))
  ELSE <<p[1]>> \o CleanTemplate(Tail(p))

\* C16 (as claimed): the template of a route reduces every token
\* {name:regex}, {name?} and {name*} of its pattern to {name} and keeps the
\* literal text around the tokens.
C16_Template ==
  url.kind # "new" => url.template = CleanTemplate(url.path)

Served == ctx.kind = "served"

\* the paths a pattern of the served routes stands for: a literal path
\* itself, prefix{name} the prefix followed by one non-empty segment, the
\* '*' shorthand everything that starts with the prefix
Denotes(p, path) ==
  IF IsLiteral(p) THEN path = p
  ELSE /\ HasPrefix(path, LitPrefix(p))
       /\ PlainTail(p) =>
            LET seg == Drop(path, Len(LitPrefix(p)))
            IN seg # <<>> /\ "/" \notin Range(seg)

\* the methods under which a registered route stands for the path
MethodsFor(path) ==
  {m \in Methods : \E k \in 1..Len(regs) :
                     regs[k].method = m /\ Denotes(regs[k].path, path)}

\* C12: the set findAllowedMethods returns for a path is the set of the
\* methods, among the nine, under which a registered route matches the
\* path: {GET, POST} for a path registered only under GET and POST, the
\* empty set for a path that matches under no method.
C12_AllowedMethods ==
  (Served /\ "MethodNotAllowed" \in Range(ctx.trace))
    => ctx.allowed = MethodsFor(ctx.path)

C12_Witness ==
  /\ Served /\ ctx.method = "DELETE" /\ ctx.path = PAbout
  /\ {regs[k].method : k \in 1..Len(regs)} = {"GET", "POST"}
  /\ ctx.allowed = {"GET", "POST"}

\* the place of a method name in alphabetical order
Rank ==
  [m \in Methods |->
     CASE m = "CONNECT" -> 1 [] m = "DELETE" -> 2 [] m = "GET" -> 3
       [] m = "HEAD" -> 4 [] m = "OPTIONS" -> 5 [] m = "PATCH" -> 6
       [] m = "POST" -> 7 [] m = "PUT" -> 8 [] m = "TRACE" -> 9]

\* header is the names of set, ascending, joined by ", "
SortedJoin(header, set) ==
  /\ Len(header) = 2 * Cardinality(set) - 1
  /\ \A i \in 1..Len(header) :
       IF i % 2 = 0 THEN header[i] = ", "
       ELSE /\ header[i] \in set
            /\ i + 2 <= Len(header) => Rank[header[i]] < Rank[header[i + 2]]

\* C13: a request whose method has no matching route, on a path that
\* matches under another method, gets an Allow header with the matching
\* methods and OPTIONS, sorted and joined by ", ", the status 405 unless
\* its method is OPTIONS, and the 404 handler is not run (router without
\* Use handlers).
C13_MethodNotAllowed ==
  (/\ Served
   /\ ctx.method \notin MethodsFor(ctx.path)
   /\ MethodsFor(ctx.path) # {})
    => /\ SortedJoin(ctx.allow, MethodsFor(ctx.path) \cup {"OPTIONS"})
       /\ ctx.method # "OPTIONS" => ctx.status = StatusMethodNotAllowed
       /\ "NotFound" \notin Range(ctx.trace)
       /\ MethodsFor(ctx.path) = {"GET", "POST"}
            => ctx.allow = <<"GET", ", ", "OPTIONS", ", ", "POST">>

C13_Witness ==
  /\ Served /\ ctx.method = "DELETE" /\ ctx.path = PAbout
  /\ ctx.status = StatusMethodNotAllowed
  /\ ctx.allow = <<"GET", ", ", "OPTIONS", ", ", "POST">>
  /\ ctx.trace = <<"MethodNotAllowed">>

\* C14: a request on a path that matches no route under any method gets
\* the status 404, whatever its method (router without Use handlers).
C14_NotFound ==
  (Served /\ MethodsFor(ctx.path) = {})
    => ctx.status = StatusNotFound /\ ctx.allow = <<>>

C14_Witness ==
  /\ Served /\ Len(regs) = 2 /\ ctx.method = "BREW"
  /\ ctx.path = <<"/", "a", "a">>
  /\ ctx.status = StatusNotFound
  /\ ctx.trace = <<"MethodNotAllowed", "NotFound">>

\* the group g and the groups it descends from
RECURSIVE AncestorsOrSelf(_)
AncestorsOrSelf(g) ==
  IF g = 0 THEN {} ELSE {g} \cup AncestorsOrSelf(groups[g].parent)

\* the registration whose route serves the path: the routes of the groups
\* are literal, and the first registration of a path keeps it
ServedBy(k) ==
  /\ regs[k].method = ctx.method
  /\ regs[k].path = ctx.path
  /\ \A j \in 1..(k - 1) :
       regs[j].method # ctx.method \/ regs[j].path # ctx.path

\* C17 (as claimed): a request served by a route of a group runs, ahead of
\* the route's own handlers, every handler given to Use on that group or on
\* a group it descends from, whether the Use call came before or after the
\* route or the subgroup was created.
C17_UseShared ==
  Served =>
    \A k \in 1..Len(regs) :
      ServedBy(k) =>
        \A a \in AncestorsOrSelf(regs[k].g) :
          \A i \in 1..Len(groups[a].uses) :
            \E x, y \in 1..Len(ctx.trace) :
              /\ x < y
              /\ ctx.trace[x] = groups[a].uses[i]
              /\ ctx.trace[y] = regs[k].own[1]

\* C18 (as claimed): the group Route(prefix, fn) hands to fn has the
\* prefix of the receiving group followed once by prefix, and a request on
\* that prefix followed by the path of a route registered on it runs the
\* route's handlers.
C18_RoutePrefix ==
  /\ \A g \in 1..Len(groups) :
       groups[g].via = "Route"
         => groups[g].prefix = groups[groups[g].parent].prefix \o groups[g].arg
  /\ Served =>
       \A k \in 1..Len(regs) :
         LET g == regs[k].g
         IN (/\ groups[g].via = "Route"
             /\ ctx.path = groups[groups[g].parent].prefix \o groups[g].arg
                             \o PAbout)
              => "h" \in Range(ctx.trace)

\* the registered form of the '*' route
StarPath == routePath(<<>>, PStar)

\* C19 (as claimed): a request whose path starts with the part of a '*'
\* route before the '*' is served by that route when no route registered
\* earlier under the method stands for the path, and Param(":") is the
\* rest of the path.
C19_StarParam ==
  Served =>
    \A k \in 1..Len(regs) :
      (/\ regs[k].path = StarPath
       /\ regs[k].method = ctx.method
       /\ HasPrefix(ctx.path, LitPrefix(StarPath))
       /\ \A j \in 1..(k - 1) :
            regs[j].method # ctx.method \/ ~Denotes(regs[j].path, ctx.path))
        => /\ ctx.trace = regs[k].chain
           /\ Param(ctx, <<":">>) = Drop(ctx.path, Len(LitPrefix(StarPath)))

\* the place of the failing handler in the chain of the request
FailAt == IndexByte(ctx.handlers, "fail")

\* a middleware ahead of the failing handler discards what Next returned
Discarded == \E j \in 1..(FailAt - 1) : ctx.handlers[j] = "sw"

\* C20 (as claimed): once a handler of the chain has returned an error, no
\* later handler of the chain runs and the error reaches the error handling
\* of HandleRequest, also when a middleware called the failing handler
\* through its own Next.
C20_ErrorStops ==
  (Served /\ "fail" \in Range(ctx.trace))
    => /\ ctx.trace = Take(ctx.handlers, FailAt)
       /\ ctx.handled = StatusBadRequest

\* C20 (amended): the Next call that invoked the failing handler returns
\* its error at once.  When every middleware that reached the handler
\* through its own Next returns what Next returned, no later handler runs
\* and the error reaches the error handling of HandleRequest; when such a
\* middleware returns nil instead, the enclosing Next goes on with the
\* handlers after the failing one and no error reaches HandleRequest.
C20_ErrorPropagates ==
  (Served /\ "fail" \in Range(ctx.trace))
    => /\ ~Discarded
            => /\ ctx.trace = Take(ctx.handlers, FailAt)
               /\ ctx.handled = StatusBadRequest
               /\ ctx.status = StatusBadRequest
       /\ Discarded
            => /\ ctx.trace = ctx.handlers
               /\ ctx.handled = 0
               /\ ctx.status = StatusOK

C20_Witness ==
  /\ Served /\ ctx.handlers = <<"mw", "fail", "h">>
  /\ ctx.trace = <<"mw", "fail">>
  /\ ctx.status = StatusBadRequest

\* every end the alternative pat[k..] can reach in s from offset pos,
\* whatever the repetitions take
RECURSIVE Ends(_, _, _, _)
Ends(pat, k, s, pos) ==
  IF k > Len(pat) THEN {pos}
  ELSE IF k + AtomLen(pat, k) <= Len(pat) /\ pat[k + AtomLen(pat, k)] = "+"
  THEN UNION {Ends(pat, k + AtomLen(pat, k) + 1, s, pos + j) :
                j \in 1..Run(s, pos + 1, AtomSet(pat, k, AtomLen(pat, k)))}
  ELSE IF k + AtomLen(pat, k) <= Len(pat) /\ pat[k + AtomLen(pat, k)] = "*"
  THEN UNION {Ends(pat, k + AtomLen(pat, k) + 1, s, pos + j) :
                j \in 0..Run(s, pos + 1, AtomSet(pat, k, AtomLen(pat, k)))}
  ELSE IF Run(s, pos + 1, AtomSet(pat, k, AtomLen(pat, k))) >= 1
  THEN Ends(pat, k + AtomLen(pat, k), s, pos + 1)
  ELSE {}

\* the lengths of the prefixes of s that the pattern matches
PrefixEnds(pattern, s) ==
  UNION {Ends(SplitAlt(pattern, 1, <<>>, FALSE)[a], 1, s, 0) :
           a \in 1..Len(SplitAlt(pattern, 1, <<>>, FALSE))}

Longest(pattern, s) ==
  CHOOSE e \in PrefixEnds(pattern, s) : \A x \in PrefixEnds(pattern, s) : x <= e

\* C22 (as claimed): for a route that is a literal prefix followed by a
\* regex-constrained parameter, when the pattern matches some prefix of the
\* rest of the path, the value captured is the longest such prefix, also
\* when a shorter alternative matches too; so the route is returned, with
\* the whole rest as the value, when the longest prefix is the whole rest
\* and no route registered earlier matches the path.
C22_LongestMatch ==
  IsGet =>
    \A k \in 1..Len(routes) :
      (/\ RegexTail(routes[k]) /\ FirstIndex(routes[k]) = k
       /\ HasPrefix(op.key, LitPrefix(routes[k]))
       /\ PrefixEnds(RegexOf(routes[k]),
                     Drop(op.key, Len(LitPrefix(routes[k])))) # {})
        => /\ op.d = k
                => op.pv[1] =
                     Take(Drop(op.key, Len(LitPrefix(routes[k]))),
                          Longest(RegexOf(routes[k]),
                                  Drop(op.key, Len(LitPrefix(routes[k])))))
           /\ (/\ Longest(RegexOf(routes[k]),
                          Drop(op.key, Len(LitPrefix(routes[k]))))
                    = Len(op.key) - Len(LitPrefix(routes[k]))
               /\ NoEarlierMatch(k, op.key))
                => op.d = k

\* C23 (as claimed): a parametric branch that fails leaves the caller's
\* buffer as it was, so a Get that returns no match returns the buffer it
\* was given, every slot unchanged.
C23_NoMatchFrame ==
  (IsGet /\ op.d = Nil) => op.pv = FreshBuffer

\* the nodes of the subtree of n, n included
RECURSIVE Subtree(_, _)
Subtree(ns, n) ==
  {n} \cup UNION {Subtree(ns, ns[n].children[b]) :
                    b \in {x \in Byte : ns[n].children[x] # Nil}}
      \cup UNION {Subtree(ns, ns[n].pchildren[i]) :
                    i \in 1..Len(ns[n].pchildren)}

\* the orders of the nodes with handlers in the subtree of n
SubtreeOrders(ns, n) ==
  {ns[m].order : m \in {x \in Subtree(ns, n) : ns[x].handlers # Nil}}

\* C26: after any sequence of Add calls, every node but the root has a
\* node with handlers in its subtree and its minOrder is the least order of
\* those nodes; so a parametric child that the loop of Get skips, its
\* minOrder not below the best order, holds no route of a lower order.
C26_MinOrder ==
  op.kind # "get" => \A n \in 2..Len(nodes) :
    /\ n \in Subtree(nodes, 1)
    /\ SubtreeOrders(nodes, n) # {}
    /\ nodes[n].minOrder \in SubtreeOrders(nodes, n)
    /\ \A o \in SubtreeOrders(nodes, n) : nodes[n].minOrder <= o
    /\ \A best \in (1..count) \cup {MaxInt32} :
           (pruned(nodes[n], best)
              => \A o \in SubtreeOrders(nodes, n) : o >= best)

\* the node of /a/a has been split for /a/{i}: the prefix node keeps the
\* minOrder of the first route, over a static child of the first route
\* and a parametric child of the second
C26_Witness ==
  /\ routes = <<PAdmin, PUser>>
  /\ \E n \in 2..Len(nodes) :
       /\ nodes[n].static /\ nodes[n].handlers = Nil
       /\ SubtreeOrders(nodes, n) = {1, 2}
       /\ nodes[n].minOrder = 1
       /\ nodes[nodes[n].children["a"]].minOrder = 1
       /\ Len(nodes[n].pchildren) = 1
       /\ nodes[nodes[n].pchildren[1]].minOrder = 2

\* every complete match in the subtree of n for path, each branch explored
\* on a buffer of its own: a set of [d, names, pv], pv holding what the
\* nodes on the way to the match captured
RECURSIVE AllCaptures(_, _, _, _)
AllCaptures(ns, n, path, pv) ==
  LET c == Consume(ns[n], path, pv)
      lit == IF Len(c.path) > 0 THEN ns[n].children[c.path[1]] ELSE Nil
  IN IF ~c.ok THEN {}
     ELSE (IF Len(c.path) = 0 /\ ns[n].handlers # Nil
           THEN {[d |-> ns[n].handlers, names |-> ns[n].pnames, pv |-> c.pv]}
           ELSE {})
          \cup (IF lit # Nil THEN AllCaptures(ns, lit, c.path, c.pv) ELSE {})
          \cup UNION {AllCaptures(ns, ns[n].pchildren[i], c.path, c.pv) :
                        i \in 1..Len(ns[n].pchildren)}

\* C27: when Get returns a route, the names are those of the route's last
\* node and, for every index below their number, the caller's buffer holds
\* what the parameter nodes on the route's own path captured, whatever the
\* other branches wrote before or after the winning one.
C27_WinnerValues ==
  (IsGet /\ op.d # Nil) =>
    \E m \in AllCaptures(nodes, 1, op.key, FreshBuffer) :
      /\ m.d = op.d
      /\ m.names = op.names
      /\ \A i \in 1..Len(op.names) : op.pv[i] = m.pv[i]

\* the branch of /a/{i}-{s} writes "a" into slot 0 and fails, then the
\* wildcard route wins and slot 0 holds its capture
C27_Witness ==
  /\ IsGet /\ routes = <<PPage, PFiles>>
  /\ op.key = <<"/", "a", "/", "a", "/", "a">>
  /\ op.d = 2 /\ op.names = <<<<"p">>>>
  /\ op.pv = <<<<"a", "/", "a">>, Stale>>

\* the values Get returned for the names of the route
Values(r) == Take(r.pv, Len(r.names))

\* C28 (as claimed): an Add that does not panic changes the result of no
\* Get that matched before it: for every path on which Get returned a
\* route, Get returns the same handlers, names and values after the Add.
C28_AddKeepsMatches ==
  [][(op'.kind = "add" /\ ~op'.panic)
       => \A path \in Paths :
            get(nodes, 1, path, FreshBuffer).d # Nil
              => /\ get(nodes', 1, path, [i \in 1..maxRet' |-> Stale]).d
                      = get(nodes, 1, path, FreshBuffer).d
                 /\ get(nodes', 1, path, [i \in 1..maxRet' |-> Stale]).names
                      = get(nodes, 1, path, FreshBuffer).names
                 /\ Values(get(nodes', 1, path, [i \in 1..maxRet' |-> Stale]))
                      = Values(get(nodes, 1, path, FreshBuffer))]_vars

\* the texts between the braces of the tokens of p, in pattern order
RECURSIVE Tokens(_)
Tokens(p) ==
  IF p = <<>> THEN <<>>
  ELSE IF p[1] = "{" /\ IndexByte(p, "}") > 0
  THEN <<SubSeq(p, 2, IndexByte(p, "}") - 1)>>
         \o Tokens(Drop(p, IndexByte(p, "}")))
  ELSE Tokens(Tail(p))

\* the token is a plain parameter {name} that is not optional
PlainToken(t) == Range(t) \cap {":", "?", "*"} = {}

\* C29 (as claimed): when Get returns a route, the value of every plain
\* parameter of its pattern that is not optional is not empty.
C29_NonEmptyParam ==
  (IsGet /\ op.d # Nil) =>
    \A i \in 1..Len(Tokens(routes[op.d])) :
      PlainToken(Tokens(routes[op.d])[i]) => op.pv[i] # <<>>

\* the largest number of tokens among the patterns passed to Zeno.add
MaxTokens ==
  IF regs = <<>> THEN 0
  ELSE CHOOSE c \in {Len(Tokens(regs[k].path)) : k \in 1..Len(regs)} :
         \A k \in 1..Len(regs) : Len(Tokens(regs[k].path)) <= c

\* C25: after any sequence of registrations through Zeno.add, maxParams is
\* the largest number of parameters among the routes passed to it, every
\* node of every method's tree has a parameter index below maxParams, and
\* a request served with a buffer of maxParams slots, the probe of
\* findAllowedMethods included, ends without an index out of range.
C25_MaxParams ==
  /\ zeno.maxParams = MaxTokens
  /\ \A m \in Methods :
       \A n \in 1..Len(zeno.trees[m].nodes) :
         zeno.trees[m].nodes[n].pindex < zeno.maxParams
  /\ Served => ~ctx.fault /\ Len(ctx.pvalues) = zeno.maxParams

\* a route of one parameter registered after a route of two: maxParams
\* stays 2 and the request on the longer route fills both slots
C25_Witness ==
  /\ Served /\ Len(regs) = 2
  /\ regs[1].path = PPage /\ regs[2].path = PUser
  /\ zeno.maxParams = 2
  /\ ctx.pnames = <<<<"i">>, <<"s">>>>
  /\ ctx.pvalues = <<<<"a">>, <<"a">>>>

\* C21: once a handler has called Abort, no further handler of the chain
\* is invoked for the request: the handlers invoked are those invoked when
\* Abort was called, whether the aborting handler was called by the loop of
\* the outermost Next or through the Next of a middleware, and also when
\* the handler called Next itself before it called Abort.
C21_AbortStops ==
  (Served /\ ctx.abortedAt >= 0) =>
    /\ Len(ctx.trace) = ctx.abortedAt
    /\ ctx.index >= Len(ctx.handlers)
    /\ ctx.handlers = <<"ab", "h", "t">> => ctx.trace = <<"ab">>
    /\ ctx.handlers = <<"mw", "ab", "h">> => ctx.trace = <<"mw", "ab">>
    /\ ctx.handlers = <<"h", "na", "t">> => ctx.trace = <<"h", "na", "t">>

\* Abort called below a middleware's Next: the handler after it is not run
C21_Witness ==
  /\ Served
  /\ ctx.handlers = <<"mw", "ab", "h">>
  /\ ctx.trace = <<"mw", "ab">>
  /\ ctx.abortedAt = 2
  /\ ctx.status = StatusOK

\* handlers that return an error or call Abort
Stopping == {"fail", "ab", "na", "NotFound", "MethodNotAllowed"}

\* C30: when no handler of the selected chain returns an error or calls
\* Abort, the request invokes every handler of the chain once, in chain
\* order, whether handlers call Next themselves or not, and no error
\* reaches HandleRequest; this holds for a context the pool hands out
\* again, whatever index the request before left in it.
C30_EachOnce ==
  (Served /\ Range(ctx.handlers) \cap Stopping = {})
    => /\ ctx.trace = ctx.handlers
       /\ ctx.handled = 0
       /\ ctx.status = StatusOK
       /\ ctx.index >= Len(ctx.handlers)

\* a reused context, left past the end of a chain of three, serves a chain
\* with two middleware from its first handler
C30_Witness ==
  /\ Served /\ ctx.uses = 2 /\ ctx.prev >= 3
  /\ ctx.handlers = <<"sw", "nn", "h">>
  /\ ctx.trace = <<"sw", "nn", "h">>

\* what tree.Get returns for the path when it runs alone on the tree
Alone(path) ==
  [d |-> get(nodes, 1, path, FreshBuffer).d,
   names |-> get(nodes, 1, path, FreshBuffer).names,
   pv |-> get(nodes, 1, path, FreshBuffer).pv]

\* every lookup that has ended returned what it returns alone
SameAsAlone ==
  \A p \in Goroutines :
    /\ procs.g[p].state # "fault"
    /\ procs.g[p].state = "done" => procs.g[p].result = Alone(procs.g[p].path)

\* C24: a step of Get changes no node of the tree, and in every
\* interleaving of the steps of concurrent Get calls on one tree, each with
\* a buffer of its own, each call returns the handlers, names and values it
\* returns when it runs alone.
C24_ConcurrentGet ==
  /\ []SameAsAlone
  /\ [][procs'.g # procs.g => nodes' = nodes /\ count' = count]_vars

\* a lookup has ended with a match while the other, on another path, is in
\* a call on a child, and both have written their buffers
C24_Witness ==
  /\ procs.g[1].state = "done" /\ procs.g[1].result.d # Nil
  /\ procs.g[2].state = "run" /\ Len(procs.g[2].stack) >= 2
  /\ procs.g[1].path # procs.g[2].path
  /\ procs.bufs[procs.g[1].buf] # procs.bufs[procs.g[2].buf]
  /\ procs.bufs[procs.g[2].buf][1] # Stale

====
